---- MODULE Spec2Model ----
(***************************************************************************)
(* Liquid-level mass properties of tank shapes, as computed by the CadQuery *)
(* validation notebook (docs/notebooks cadquery tank validation).           *)
(*                                                                          *)
(* Every solid the notebook builds is a body of revolution about the z      *)
(* axis, made of spheres and cylinders whose centres and extents lie on a   *)
(* common grid.  A solid is therefore modelled as a function from the unit  *)
(* cells [k, k+1] of the z axis it occupies to the primitive whose surface  *)
(* bounds it there.  Lengths are integers on that grid (the grid unit is    *)
(* arbitrary, heights are even so that the notebook's "/ 2" is exact), and  *)
(* volumes, first moments and second moments are exact integers in units    *)
(* of pi/60, so no rounding is modelled.  Quotients (centre of mass,        *)
(* inertia) are reduced fractions [n, d].                                   *)
(***************************************************************************)
EXTENDS Integers, Sequences, FiniteSets, TLC

VARIABLES pc, request, shape, error, stdout, previous, result, samples,
          datapoints, merged, reordered, table

vars == <<pc, request, shape, error, stdout, previous, result, samples,
          datapoints, merged, reordered, table>>

(* ---------------------------- bounds ----------------------------------- *)
MaxRadius == 2
MaxHalfHeight == 3
MaxFar == 6

(* Dimensions handed to the constructors, non-positive ones included.       *)
Dims == (0 - 1)..MaxRadius
HalfHeights == (0 - 1)..MaxHalfHeight
(* Levels asked of the evaluator: every level in and just outside the valid *)
(* range of every shape, and levels far below it, at multiples of the       *)
(* factor 10 that sizes the cutting tool.                                   *)
NearLevel == MaxHalfHeight + 2
Levels == ((0 - NearLevel)..NearLevel) \cup {0 - 10 * k : k \in 1..MaxFar}

(* ------------------------- exact arithmetic ---------------------------- *)
Abs(x) == IF x < 0 THEN 0 - x ELSE x

RECURSIVE Gcd(_, _)
Gcd(a, b) == IF b = 0 THEN a ELSE Gcd(b, a % b)

Frac(n, d) ==
    LET g == Gcd(Abs(n), Abs(d))
        s == IF d < 0 THEN 0 - 1 ELSE 1
    IN  IF d = 0 THEN [n |-> n, d |-> 0]
        ELSE [n |-> s * (n \div g), d |-> s * (d \div g)]

Zero == [n |-> 0, d |-> 1]

NotANumber == [n |-> 1, d |-> 0]

Int2Frac(x) == [n |-> x, d |-> 1]

(* Product and sum of fractions, reduced before multiplying so that the     *)
(* intermediate integers stay small.                                        *)
FracMul(p, q) ==
    IF p.d = 0 \/ q.d = 0 THEN NotANumber
    ELSE LET a == Frac(p.n, q.d)
             b == Frac(q.n, p.d)
         IN  Frac(a.n * b.n, a.d * b.d)

FracAdd(p, q) ==
    IF p.d = 0 \/ q.d = 0 THEN NotANumber
    ELSE LET g == Gcd(p.d, q.d)
         IN  Frac(p.n * (q.d \div g) + q.n * (p.d \div g), (p.d \div g) * q.d)

FracSub(p, q) == FracAdd(p, [n |-> 0 - q.n, d |-> q.d])

Finite(q) == q.d # 0

FracLeq(p, q) == p.n * q.d <= q.n * p.d

(* ------------------------- the CAD kernel ------------------------------ *)
(* cq.Workplane("XY").sphere(radius): centred at the origin.                *)
sphere(radius) ==
    [k \in (0 - radius)..(radius - 1) |-> [kind |-> "sphere", c |-> 0, r |-> radius]]

(* cq.Workplane("XY").cylinder(height, radius): centred at the origin,      *)
(* axis along z.                                                            *)
cylinder(height, radius) ==
    [k \in (0 - (height \div 2))..((height \div 2) - 1) |->
        [kind |-> "cylinder", c |-> 0, r |-> radius]]

(* The translation is computed and dropped: the solid stays where it was.   *)
translate_dropped(solid, dz) == solid

(* .translate((0, 0, dz))                                                   *)
translate(solid, dz) ==
    [k \in {j + dz : j \in DOMAIN solid} |->
        [kind |-> solid[k - dz].kind, c |-> solid[k - dz].c + dz, r |-> solid[k - dz].r]]

(* Four times the squared radius of the cross-section of primitive p at the *)
(* middle of cell k.                                                        *)
Rho2x4(p, k) ==
    IF p.kind = "cylinder" THEN 4 * p.r * p.r
    ELSE 4 * p.r * p.r - (2 * k + 1 - 2 * p.c) * (2 * k + 1 - 2 * p.c)

(* a.union(b): where both solids are present the wider cross-section is the *)
(* boundary of the result.                                                  *)
union(a, b) ==
    [k \in (DOMAIN a) \cup (DOMAIN b) |->
        IF k \notin DOMAIN b THEN a[k]
        ELSE IF k \notin DOMAIN a THEN b[k]
        ELSE IF Rho2x4(a[k], k) >= Rho2x4(b[k], k) THEN a[k] ELSE b[k]]

(* solid.cut(tool): what the tool covers is removed.  Both call sites pass  *)
(* a tool cylinder of the tank's own radius, which covers the whole         *)
(* cross-section wherever it is present.                                    *)
cut(solid, tool) ==
    [k \in {j \in DOMAIN solid :
                \/ j \notin DOMAIN tool
                \/ Rho2x4(tool[j], j) < Rho2x4(solid[j], j)} |-> solid[k]]

(* Integrals over cell k of primitive p, times 60/pi:                       *)
(*   n = 0: volume; n = 1: first moment about z = 0;                        *)
(*   n = 2: second moment about the x axis through the origin.              *)
CellMoment(p, k, n) ==
    LET u0 == k - p.c
        u1 == k + 1 - p.c
        z0 == k
        z1 == k + 1
        r2 == p.r * p.r
        d2 == u1 * u1 - u0 * u0
        d3 == u1 * u1 * u1 - u0 * u0 * u0
        d4 == u1 * u1 * u1 * u1 - u0 * u0 * u0 * u0
        d5 == u1 * u1 * u1 * u1 * u1 - u0 * u0 * u0 * u0 * u0
        v  == 60 * r2 - 20 * d3
        m  == 30 * r2 * d2 - 15 * d4
    IN  IF p.kind = "cylinder"
        THEN CASE n = 0 -> 60 * r2
               [] n = 1 -> 30 * r2 * (z1 * z1 - z0 * z0)
               [] OTHER -> 15 * r2 * r2 + 20 * r2 * (z1 * z1 * z1 - z0 * z0 * z0)
        ELSE CASE n = 0 -> v
               [] n = 1 -> m + p.c * v
               [] OTHER -> (15 * r2 * r2 - 10 * r2 * d3 + 3 * d5)
                           + (20 * r2 * d3 - 12 * d5) + 2 * p.c * m + p.c * p.c * v

RECURSIVE SumMoment(_, _, _)
SumMoment(solid, D, n) ==
    IF D = {} THEN 0
    ELSE LET k == CHOOSE j \in D : TRUE
         IN  CellMoment(solid[k], k, n) + SumMoment(solid, D \ {k}, n)

(* primitive.Volume()                                                       *)
Volume(solid) == SumMoment(solid, DOMAIN solid, 0)

(* First moment over volume with no case for a shape without volume.        *)
centerOfMass_unguarded(solid) ==
    Frac(SumMoment(solid, DOMAIN solid, 1), SumMoment(solid, DOMAIN solid, 0))

(* primitive.centerOfMass(primitive).z: first moment over volume; the       *)
(* kernel reports the origin for a shape without volume.                    *)
centerOfMass(solid) ==
    IF Volume(solid) = 0 THEN Zero
    ELSE Frac(SumMoment(solid, DOMAIN solid, 1), Volume(solid))

(* Central moment with no case for a shape without volume.                  *)
matrixOfInertia_unguarded(solid) ==
    LET V == SumMoment(solid, DOMAIN solid, 0)
        M == SumMoment(solid, DOMAIN solid, 1)
        I == SumMoment(solid, DOMAIN solid, 2)
    IN  Frac(I * V - M * M, V)

(* primitive.matrixOfInertia(primitive)[0][0]: the moment about the x axis  *)
(* through the centre of mass (central moment).                             *)
matrixOfInertia(solid) ==
    LET V == Volume(solid)
        M == SumMoment(solid, DOMAIN solid, 1)
        I == SumMoment(solid, DOMAIN solid, 2)
    IN  IF V = 0 THEN Zero ELSE Frac(I * V - M * M, V)

(* The shift term taken as volume * center_of_mass.z, not squared.          *)
ParallelAxis_unsquared(central, volume, com) ==
    FracAdd(central, FracMul(Int2Frac(volume), com))

(* inertia_tensor[0][0] + volume * center_of_mass.z**2                      *)
ParallelAxis(central, volume, com) ==
    FracAdd(central, FracMul(FracMul(Int2Frac(volume), com), com))

Measure(solid) ==
    [volume |-> Volume(solid),
     center_of_mass |-> centerOfMass(solid),
     inertia |-> ParallelAxis(matrixOfInertia(solid), Volume(solid), centerOfMass(solid))]

(* ------------------------- the notebook -------------------------------- *)
(* The tool put below the level, so that the part above it is kept.         *)
evaluate_sphere_parameters_below(radius, level_height) ==
    LET drill_height == 10 * radius
        tool == translate(cylinder(drill_height, radius),
                          level_height - (drill_height \div 2))
    IN  Measure(cut(sphere(radius), tool))

(* The tool translated by level_height only, so that it is centred on the   *)
(* level instead of starting at it.                                         *)
evaluate_sphere_parameters_centred(radius, level_height) ==
    LET drill_height == 10 * radius
        tool == translate(cylinder(drill_height, radius), level_height)
    IN  Measure(cut(sphere(radius), tool))

evaluate_sphere_parameters(radius, level_height) ==
    LET drill_height == 10 * radius
        tool == translate(cylinder(drill_height, radius),
                          (drill_height \div 2) + level_height)
    IN  Measure(cut(sphere(radius), tool))

(* The caps put on top of a straight section of the full total length.      *)
capped_cylinder_stacked(total_length, radius) ==
    LET top_cap == translate(sphere(radius), total_length \div 2)
        bottom_cap == translate(sphere(radius), 0 - (total_length \div 2))
    IN  union(union(cylinder(total_length, radius), top_cap), bottom_cap)

(* The straight section left out of the union.                              *)
capped_cylinder_capsonly(total_length, radius) ==
    LET top_cap == translate(sphere(radius), (total_length \div 2) - radius)
        bottom_cap == translate(sphere(radius), (0 - (total_length \div 2)) + radius)
    IN  union(top_cap, bottom_cap)

(* The solid evaluate_cylinder_with_caps builds before cutting:             *)
(* cylinder.union(top_cap).union(bottom_cap).                               *)
capped_cylinder(total_length, radius) ==
    LET cylinder_height == total_length - 2 * radius
        top_cap == translate(sphere(radius), (total_length \div 2) - radius)
        bottom_cap == translate(sphere(radius), (0 - (total_length \div 2)) + radius)
    IN  union(union(cylinder(cylinder_height, radius), top_cap), bottom_cap)

(* The tool sized by the radius, not by the total length.                   *)
evaluate_cylinder_with_caps_shortdrill(total_length, radius, level_height) ==
    LET solid == capped_cylinder(total_length, radius)
        drill_height == 2 * radius
        tool == translate(cylinder(drill_height, radius),
                          (drill_height \div 2) + level_height)
    IN  Measure(cut(solid, tool))

evaluate_cylinder_with_caps(total_length, radius, level_height) ==
    LET solid == capped_cylinder(total_length, radius)
        drill_height == 10 * total_length
        tool == translate(cylinder(drill_height, radius),
                          (drill_height \div 2) + level_height)
    IN  Measure(cut(solid, tool))

(* The tank shapes handed to the notebook.  Construction validates the      *)
(* dimensions; a capped cylinder keeps its total height and gives up        *)
(* 2 * radius of its straight section to the caps, with the warning the     *)
(* fixture cell prints ("... will not modify the total height of the tank   *)
(* ... Its cylindrical portion height will be reduced to ...").             *)
NoShape == [kind |-> "none", radius |-> 0, total_height |-> 0, cylinder_length |-> 0]

SphericalTank(radius) ==
    IF radius <= 0
    THEN [error |-> "ConfigurationError", warning |-> <<>>, shape |-> NoShape]
    ELSE [error |-> "none", warning |-> <<>>,
          shape |-> [kind |-> "sphere", radius |-> radius,
                     total_height |-> 2 * radius, cylinder_length |-> 0]]

CylindricalTank(radius, height) ==
    IF radius <= 0 \/ height <= 0 \/ height - 2 * radius < 0
    THEN [error |-> "ConfigurationError", warning |-> <<>>, shape |-> NoShape]
    ELSE [error |-> "none",
          warning |-> <<[total_height |-> height,
                         cylindrical_portion |-> height - 2 * radius]>>,
          shape |-> [kind |-> "cylinder", radius |-> radius,
                     total_height |-> height, cylinder_length |-> height - 2 * radius]]

(* The call each sweep makes for one level of one geometry.                 *)
evaluate(sh, h) ==
    IF sh.kind = "sphere"
    THEN evaluate_sphere_parameters(sh.total_height \div 2, h)
    ELSE evaluate_cylinder_with_caps(sh.total_height, sh.radius, h)

(* The samples spaced as if the stop value were not one of them.            *)
linspace_noendpoint(start, stop, num, i) == start + (i * (stop - start)) \div num

(* np.linspace(start, stop, num)[i]; num is drawn so that the step is a     *)
(* whole number of grid units.                                              *)
linspace(start, stop, num, i) == start + (i * (stop - start)) \div (num - 1)

SampleCounts(sh) == {n \in 2..(sh.total_height + 1) : sh.total_height % (n - 1) = 0}

Level(sh, num, i) ==
    linspace(0 - (sh.total_height \div 2), sh.total_height \div 2, num, i)

(* [h, *evaluate(...)]                                                      *)
Row(h, m) ==
    [level_height |-> h, volume |-> m.volume,
     center_of_mass |-> m.center_of_mass, inertia |-> m.inertia]

NoResult == [level_height |-> 0, volume |-> 0 - 1, center_of_mass |-> Zero, inertia |-> Zero]

Header == <<"level_height", "volume", "center_of_mass", "inertia">>

Init ==
    /\ pc = "new"
    /\ request = [kind |-> "none", radius |-> 0, height |-> 0]
    /\ shape = NoShape
    /\ error = "none"
    /\ stdout = <<>>
    /\ previous = NoResult
    /\ result = NoResult
    /\ samples = 0
    /\ datapoints = <<>>
    /\ merged = <<>>
    /\ reordered = FALSE
    /\ table = <<>>

(* The constructor's error is swallowed and the notebook carries on.       *)
Constructed_deferred(req, c) ==
    /\ request' = req
    /\ shape' = c.shape
    /\ error' = c.error
    /\ stdout' = c.warning
    /\ pc' = "ready"
    /\ UNCHANGED <<previous, result, samples, datapoints, merged, reordered, table>>

(* The notebook cell that builds the fixtures: a constructor that raises    *)
(* aborts it, otherwise the shape is available to the cells below.          *)
Constructed(req, c) ==
    /\ request' = req
    /\ shape' = c.shape
    /\ error' = c.error
    /\ stdout' = c.warning
    /\ pc' = IF c.error = "none" THEN "ready" ELSE "failed"
    /\ UNCHANGED <<previous, result, samples, datapoints, merged, reordered, table>>

ConstructSphere ==
    /\ pc = "new"
    /\ \E radius \in Dims :
          Constructed([kind |-> "sphere", radius |-> radius, height |-> 2 * radius],
                      SphericalTank(radius))

(* A capped cylinder whose total height is exactly its cap diameter has the *)
(* notebook ask the kernel for a cylinder of height 0; what the kernel does *)
(* with it is not determined by the notebook, and such requests are left    *)
(* out.                                                                     *)
ConstructCylinder ==
    /\ pc = "new"
    /\ \E radius \in Dims, hh \in HalfHeights :
          /\ hh # radius
          /\ Constructed([kind |-> "cylinder", radius |-> radius, height |-> 2 * hh],
                         CylindricalTank(radius, 2 * hh))

(* The call cuts the fixture itself: the shape comes back shorter.          *)
Evaluate_inplace ==
    /\ pc \in {"ready", "evaluated"}
    /\ \E h \in Levels : result' = Row(h, evaluate(shape, h))
    /\ previous' \in {previous, result}
    /\ pc' = "evaluated"
    /\ shape' = [shape EXCEPT !.total_height = IF @ > 2 THEN @ - 2 ELSE @]
    /\ UNCHANGED <<request, error, stdout, samples, datapoints, merged,
                   reordered, table>>

(* Direct calls of the evaluator on a constructed shape, at any level, as   *)
(* an alternative to running the sweep cell; the value returned last and    *)
(* one of the values returned before it are kept.                           *)
Evaluate ==
    /\ pc \in {"ready", "evaluated"}
    /\ \E h \in Levels : result' = Row(h, evaluate(shape, h))
    /\ previous' \in {previous, result}
    /\ pc' = "evaluated"
    /\ UNCHANGED <<request, shape, error, stdout, samples, datapoints, merged,
                   reordered, table>>

(* datapoints = [] before the loop over np.linspace(..., num).              *)
StartSweep ==
    /\ pc = "ready"
    /\ \E num \in SampleCounts(shape) : samples' = num
    /\ datapoints' = <<>>
    /\ merged' = <<>>
    /\ reordered' = FALSE
    /\ pc' = "sweeping"
    /\ UNCHANGED <<request, shape, error, stdout, previous, result, table>>

(* The loop evaluates with the level left over from the iteration before.   *)
SweepStep_stale ==
    /\ pc = "sweeping"
    /\ Len(datapoints) < samples
    /\ LET i == Len(datapoints)
           h == Level(shape, samples, i)
           stale == IF i = 0 THEN h ELSE datapoints[i].level_height
       IN  datapoints' = Append(datapoints, Row(h, evaluate(shape, stale)))
    /\ UNCHANGED <<pc, request, shape, error, stdout, previous, result, samples, merged,
                   reordered, table>>

(* One iteration of the loop: datapoints.append([h, *evaluate(...)]).       *)
SweepStep ==
    /\ pc = "sweeping"
    /\ Len(datapoints) < samples
    /\ LET h == Level(shape, samples, Len(datapoints))
       IN  datapoints' = Append(datapoints, Row(h, evaluate(shape, h)))
    /\ UNCHANGED <<pc, request, shape, error, stdout, previous, result, samples, merged,
                   reordered, table>>

(* The same batch of levels evaluated by independent workers in any order,  *)
(* each result stored under the index of its level.                         *)
BatchEval ==
    /\ pc = "sweeping"
    /\ \E i \in (0..(samples - 1)) \ DOMAIN merged :
          /\ merged' = [j \in (DOMAIN merged) \cup {i} |->
                           IF j = i
                           THEN Row(Level(shape, samples, i),
                                    evaluate(shape, Level(shape, samples, i)))
                           ELSE merged[j]]
          /\ reordered' = (reordered \/ \E j \in 0..(samples - 1) :
                                           j < i /\ j \notin DOMAIN merged)
    /\ UNCHANGED <<pc, request, shape, error, stdout, previous, result, samples,
                   datapoints, table>>

(* writer.writerow([*data_row]): the fields of a row in the order in which  *)
(* the sweep put them.                                                      *)
Record(row) == <<row.level_height, row.volume, row.center_of_mass, row.inertia>>

(* export_expected_parameters(name, datapoints): the header, then one       *)
(* record per data row.                                                     *)
export_expected_parameters ==
    /\ pc = "sweeping"
    /\ Len(datapoints) = samples
    /\ table' = <<Header>> \o [i \in 1..Len(datapoints) |-> Record(datapoints[i])]
    /\ pc' = "exported"
    /\ UNCHANGED <<request, shape, error, stdout, previous, result, samples, datapoints,
                   merged, reordered>>

Next ==
    \/ ConstructSphere
    \/ ConstructCylinder
    \/ Evaluate
    \/ StartSweep
    \/ SweepStep
    \/ BatchEval
    \/ export_expected_parameters

Spec == Init /\ [][Next]_vars

(* The reference usage: capped cylinders swept at NumSamples levels.  The   *)
(* grid unit is one sweep step, so the total height is NumSamples - 1       *)
(* units.                                                                   *)
NumSamples == 25

ReferenceRadii == {1, 2}

ConstructReference ==
    /\ pc = "new"
    /\ \E radius \in ReferenceRadii :
          Constructed([kind |-> "cylinder", radius |-> radius, height |-> NumSamples - 1],
                      CylindricalTank(radius, NumSamples - 1))

NextReference ==
    \/ ConstructReference
    \/ StartSweep
    \/ SweepStep
    \/ export_expected_parameters

SpecReference == Init /\ [][NextReference]_vars

(* ------------------------- properties ---------------------------------- *)
Evaluated == pc = "evaluated" /\ result # NoResult

Pair == Evaluated /\ previous # NoResult

HMin == 0 - (shape.total_height \div 2)

HMax == shape.total_height \div 2

InRange(h) == HMin <= h /\ h <= HMax

(* Closed-form volume and origin inertia of the whole shape, times 60/pi.   *)
FullVolume(sh) ==
    IF sh.kind = "sphere"
    THEN 80 * (sh.total_height \div 2) * (sh.total_height \div 2) * (sh.total_height \div 2)
    ELSE 60 * sh.radius * sh.radius * (sh.total_height - 2 * sh.radius)
         + 80 * sh.radius * sh.radius * sh.radius

FullInertia(sh) ==
    LET r == sh.radius
        lc == sh.total_height - 2 * sh.radius
    IN  15 * r * r * r * r * lc + 5 * r * r * lc * lc * lc + 32 * r * r * r * r * r
        + 30 * lc * r * r * r * r + 20 * lc * lc * r * r * r

Values(row) == <<row.volume, row.center_of_mass, row.inertia>>

(* C1: for every valid shape and every two levels h1 <= h2 the filled       *)
(* volume at h1 is at most the filled volume at h2.                         *)
C1_VolumeMonotoneAllLevels ==
    (Pair /\ previous.level_height <= result.level_height)
        => previous.volume <= result.volume

C3_ClampedOutsideRange ==
    /\ (Evaluated /\ result.level_height < HMin)
          => Values(result) = Values(Row(HMin, evaluate(shape, HMin)))
    /\ (Evaluated /\ result.level_height > HMax)
          => Values(result) = Values(Row(HMax, evaluate(shape, HMax)))

(* C4: a request with a non-positive radius or length, or with caps wider   *)
(* than the total length, ends in a ConfigurationError with no shape, and   *)
(* nothing is ever evaluated, swept or exported without a valid shape.      *)
InvalidRequest ==
    \/ request.radius <= 0
    \/ request.height <= 0
    \/ (request.kind = "cylinder" /\ 2 * request.radius > request.height)

Filled(sh, h) ==
    IF sh.kind = "sphere"
    THEN cut(sphere(sh.total_height \div 2),
             translate(cylinder(10 * (sh.total_height \div 2), sh.total_height \div 2),
                       5 * (sh.total_height \div 2) + h))
    ELSE cut(union(union(cylinder(sh.total_height - 2 * sh.radius, sh.radius),
                         translate(sphere(sh.radius), (sh.total_height \div 2) - sh.radius)),
                   translate(sphere(sh.radius), sh.radius - (sh.total_height \div 2))),
             translate(cylinder(10 * sh.total_height, sh.radius),
                       5 * sh.total_height + h))

AboutCentroid(row) ==
    FracSub(row.inertia,
            FracMul(FracMul(Int2Frac(row.volume), row.center_of_mass), row.center_of_mass))

C6_SphereComplement ==
    (/\ Pair
     /\ shape.kind = "sphere"
     /\ InRange(result.level_height)
     /\ previous.level_height = 0 - result.level_height)
        => previous.volume + result.volume = FullVolume(shape)

C6_Witness ==
    /\ Pair
    /\ shape.kind = "sphere"
    /\ InRange(result.level_height)
    /\ result.level_height > 0
    /\ result.level_height < HMax
    /\ previous.level_height = 0 - result.level_height
    /\ previous.volume > 0

(* C7: for a capped cylinder of total length L, a level h <= -L/2 gives     *)
(* zero volume, centre of mass and inertia, and a level h >= L/2 gives the  *)
(* full volume, centre of mass 0 and the full inertia about the origin.     *)
C7_CylinderEdgeCases ==
    /\ (Evaluated /\ shape.kind = "cylinder" /\ result.level_height <= HMin)
          => Values(result) = <<0, Zero, Zero>>
    /\ (Evaluated /\ shape.kind = "cylinder" /\ result.level_height >= HMax)
          => Values(result) = <<FullVolume(shape), Zero, Int2Frac(FullInertia(shape))>>

FiniteRow(row) ==
    /\ row.volume \in Int
    /\ Finite(row.center_of_mass)
    /\ Finite(row.inertia)

Step == shape.total_height \div (samples - 1)

C12_Table ==
    pc = "exported" =>
        /\ Len(table) = samples + 1
        /\ table[1] = Header
        /\ table[2][1] = HMin
        /\ table[samples + 1][1] = HMax
        /\ Step * (samples - 1) = shape.total_height
        /\ \A i \in 1..samples :
              LET h == HMin + (i - 1) * Step
                  m == evaluate(shape, h)
              IN  table[i + 1] = <<h, m.volume, m.center_of_mass, m.inertia>>
        /\ \A i \in 1..(samples - 1) : table[i + 2][1] - table[i + 1][1] = Step

C12_Witness ==
    /\ pc = "exported"
    /\ samples = NumSamples
    /\ Len(table) = NumSamples + 1
    /\ table[2][1] = HMin
    /\ table[NumSamples + 1][1] = HMax
    /\ table[3][2] > 0

(* C13: a capped cylinder of radius r and total height H that the caps fit  *)
(* in is constructed, not rejected: its total height stays H, its straight  *)
(* section is H - 2r, the warning says so, and the solid the evaluator      *)
(* builds for it spans exactly the total height, with a straight section    *)
(* of that length.                                                          *)
StraightCells(solid) == {k \in DOMAIN solid : solid[k].kind = "cylinder"}

C14_StrictlyIncreasing ==
    (pc \in {"sweeping", "exported"} /\ shape.kind = "cylinder") =>
        /\ \A i \in 1..(Len(datapoints) - 1) :
              datapoints[i].volume < datapoints[i + 1].volume
        /\ Len(datapoints) >= 1 => datapoints[1].volume = 0
        /\ Len(datapoints) = samples
              => datapoints[samples].volume
                    = 60 * shape.radius * shape.radius
                         * (shape.total_height - 2 * shape.radius)
                      + 2 * (40 * shape.radius * shape.radius * shape.radius)

C14_Witness ==
    /\ pc = "exported"
    /\ shape.kind = "cylinder"
    /\ samples = NumSamples
    /\ Len(datapoints) = NumSamples
    /\ datapoints[1].volume = 0
    /\ datapoints[2].volume > 0
    /\ datapoints[NumSamples - 1].volume < datapoints[NumSamples].volume

(* C15: for a sphere of radius R at level 0 the volume is half the volume   *)
(* of the sphere, (2/3) pi R^3, and the centre of mass is -3R/8, below the  *)
(* centre.                                                                  *)
C15_HalfSphere ==
    (Evaluated /\ shape.kind = "sphere" /\ result.level_height = 0)
        => /\ 2 * result.volume = FullVolume(shape)
           /\ result.volume = 40 * shape.radius * shape.radius * shape.radius
           /\ result.center_of_mass = Frac(0 - 3 * shape.radius, 8)
           /\ result.center_of_mass.n < 0

C15_Witness ==
    /\ Evaluated
    /\ shape.kind = "sphere"
    /\ shape.radius = 2
    /\ result.level_height = 0
    /\ result.center_of_mass = Frac(0 - 3, 4)

(* C17: for a capped cylinder the volume at any level h is the sum of the   *)
(* filled parts of the bottom hemisphere, the straight section and the top  *)
(* hemisphere, which meet at z = +/-(L/2 - r); at the full level it is      *)
(* pi r^2 (L - 2r) + (4/3) pi r^3, the volume of the uncut union.           *)
Clamp(x, lo, hi) == IF x < lo THEN lo ELSE IF x > hi THEN hi ELSE x

BottomCapFilled(sh, h) ==
    LET ch == Clamp(h - HMin, 0, sh.radius)
    IN  20 * ch * ch * (3 * sh.radius - ch)

StraightFilled(sh, h) ==
    60 * sh.radius * sh.radius
       * Clamp(h - (HMin + sh.radius), 0, sh.total_height - 2 * sh.radius)

TopCapFilled(sh, h) ==
    LET t == Clamp(h - (HMax - sh.radius), 0, sh.radius)
    IN  60 * sh.radius * sh.radius * t - 20 * t * t * t

C17_ThreeRegions ==
    (Evaluated /\ shape.kind = "cylinder")
        => /\ result.volume = BottomCapFilled(shape, result.level_height)
                              + StraightFilled(shape, result.level_height)
                              + TopCapFilled(shape, result.level_height)
           /\ result.level_height >= HMax => result.volume = FullVolume(shape)
           /\ Volume(capped_cylinder(shape.total_height, shape.radius))
                 = FullVolume(shape)

(* C18: for every level inside the valid range the cutting cylinder starts  *)
(* at the level and ends above the top of the tank, and what is measured    *)
(* is exactly the part of the tank below the level.                         *)
TankSolid(sh) ==
    IF sh.kind = "sphere" THEN sphere(sh.total_height \div 2)
    ELSE capped_cylinder(sh.total_height, sh.radius)

Below(solid, h) == [k \in {j \in DOMAIN solid : j < h} |-> solid[k]]

DrillHeight(sh) ==
    IF sh.kind = "sphere" THEN 10 * (sh.total_height \div 2) ELSE 10 * sh.total_height

C18_CutAtLevel ==
    (Evaluated /\ InRange(result.level_height))
        => /\ result.level_height + DrillHeight(shape) > HMax
           /\ Values(result) = Values(Row(result.level_height,
                                          Measure(Below(TankSolid(shape),
                                                        result.level_height))))

C18_Witness ==
    /\ Evaluated
    /\ shape.kind = "cylinder"
    /\ result.level_height = HMin + 1
    /\ result.volume > 0
    /\ result.volume < FullVolume(shape)

(* C19: for every valid shape and every two levels h1 <= h2 the inertia     *)
(* about the origin at h1 is at most the inertia at h2, and the inertia is  *)
(* never negative.                                                          *)
C19_InertiaMonotone ==
    /\ (Pair /\ previous.level_height <= result.level_height)
          => FracLeq(previous.inertia, result.inertia)
    /\ Evaluated => result.inertia.n >= 0

(* C20: at every level h with a non-zero filled volume the centre of mass   *)
(* lies between -total_height/2 and h and is never positive, and it does    *)
(* not decrease when the level rises.                                       *)
C20_CentroidInside ==
    /\ (Evaluated /\ result.volume # 0)
          => /\ FracLeq(Int2Frac(HMin), result.center_of_mass)
             /\ FracLeq(result.center_of_mass, Int2Frac(result.level_height))
             /\ result.center_of_mass.n <= 0
    /\ (/\ Pair
        /\ previous.volume # 0
        /\ result.volume # 0
        /\ previous.level_height <= result.level_height)
          => FracLeq(previous.center_of_mass, result.center_of_mass)

====
